---------------------------- MODULE Spec2Model ----------------------------
(***************************************************************************)
(* Capability-checked plan execution of poc-intent-router.                 *)
(*                                                                         *)
(* The model covers AgentServer.handleExecutePlan / executePlan and the    *)
(* PolicyEngine and ExecutorAgent code they call.  JavaScript runs one     *)
(* handler at a time: a handler keeps the thread until it awaits the       *)
(* executor's network call, so the actions of a request between two such   *)
(* suspension points are never interleaved with another request (Busy).    *)
(* The database calls are written synchronously in the source (db.all and  *)
(* db.run are called without a callback or an await of their own).         *)
(***************************************************************************)
EXTENDS Integers, Sequences, FiniteSets, TLC

VARIABLES
    capabilities,   \* PolicyEngine.capabilities : id -> [kind, scope, description, is_system]
    tools,          \* ExecutorAgent.tools       : op -> required_capabilities
    plans,          \* table plans               : id -> [steps, status]
    entities,       \* table entities            : id -> capability tags
    events,         \* table events, in insertion order
    req,            \* one record per execute request (handleExecutePlan frame)
    sortIn,         \* input of the stand-alone topologicalSort specification
    sortOut,        \* its output
    capRows,        \* table capabilities        : id -> [kind, scope, description, is_system]
    servers,        \* MCPClient.clients         : names of the connected tool providers
    upd,            \* one record per update request (handleUpdateCapability frame)
    reply,          \* the response of the last capability or tool-provider request
    promptLog,      \* the responses of handlePrompt, in the order they were sent
    polIn,          \* input of the stand-alone policy specification
    polOut,         \* its output
    mcpTools,       \* MCPClient.tools           : server names whose tools are loaded
    add             \* the add-tool-provider request and its connection attempt

providerVars == <<mcpTools, add>>
adminVars == <<capRows, servers, upd, reply, providerVars>>
pureVars == <<sortIn, sortOut, polIn, polOut>>

vars == <<capabilities, tools, plans, entities, events, req, pureVars, adminVars, promptLog>>

(***************************************************************************)
(* Bounds                                                                  *)
(***************************************************************************)
MaxSteps == 2        \* longest plan in the plans table
NumRequests == 2     \* execute requests issued in one behaviour
MaxSortSteps == 3    \* longest plan handed to the stand-alone sort
MaxSortDeps == 2     \* longest deps array handed to the stand-alone sort

Requests == 1..NumRequests
PlanIds == {"p1", "p2"}

(***************************************************************************)
(* Identifiers.  An entity id is a UUID; a fresh one (crypto.randomUUID)   *)
(* is modelled by the request and step that created it.  Strings found in  *)
(* step arguments are tokens: the id of an entity, a string that has the   *)
(* 8-4-4-4-12 hex shape but no RFC 4122 version/variant nibble (LooseTok), *)
(* or plain text (TextTok).                                                *)
(***************************************************************************)
Id(r, s, k) == [r |-> r, s |-> s, k |-> k]
SeedEntity == Id(0, 0, 1)
LooseTok == Id(-1, 0, 0)
TextTok == Id(-2, 0, 0)

\* policy.ts isUUID: RFC 4122 version 1-5 pattern
isUUID(tok) == tok.r >= 0

\* server.ts getConsumedEntities: any 8-4-4-4-12 hex string
looksLikeEntityId(tok) == tok.r >= -1

SeqToSet(s) == {s[i] : i \in 1..Len(s)}

\* the leaves of a JSON value, in traversal order, that pass a format test
RECURSIVE SelectLeaves(_, _, _)
SelectLeaves(s, strict, i) ==
    IF i > Len(s) THEN <<>>
    ELSE IF (strict /\ isUUID(s[i])) \/ (~strict /\ looksLikeEntityId(s[i]))
         THEN <<s[i]>> \o SelectLeaves(s, strict, i + 1)
    ELSE SelectLeaves(s, strict, i + 1)

(***************************************************************************)
(* Capability registry after AgentServer.initializeCapabilities            *)
(***************************************************************************)
DefaultCapabilities ==
    [id \in {"WRITE_FILE", "SEND_EMAIL", "share_with:team", "pii_allowed"} |->
        CASE id = "WRITE_FILE" ->
                [kind |-> "ToolCap", scope |-> "fs", description |-> "d1", is_system |-> TRUE]
          [] id = "SEND_EMAIL" ->
                [kind |-> "ToolCap", scope |-> "smtp", description |-> "d1", is_system |-> TRUE]
          [] id = "share_with:team" ->
                [kind |-> "DataCap", scope |-> "sharing", description |-> "d1", is_system |-> TRUE]
          [] id = "pii_allowed" ->
                [kind |-> "DataCap", scope |-> "privacy", description |-> "d1", is_system |-> TRUE]]

\* ExecutorAgent.registerDefaultTools: name -> required_capabilities
DefaultTools ==
    [op \in {"create_document", "send_message", "analyze_content"} |->
        CASE op = "create_document" -> {"WRITE_FILE"}
          [] op = "send_message" -> {"SEND_EMAIL"}
          [] op = "analyze_content" -> {}]

\* ExecutorAgent.getToolRegistry
getToolRegistry(t) == t

(***************************************************************************)
(* Policy engine                                                           *)
(***************************************************************************)
\* the kind of the registered capability is not looked at
hasKindAny(caps, id, kind) == id \in DOMAIN caps

hasKind(caps, id, kind) == id \in DOMAIN caps /\ caps[id].kind = kind

validateToolCapabilities(caps, step, stepIndex, toolRegistry) ==
    LET requiredToolCaps ==
            IF step.op \in DOMAIN toolRegistry THEN toolRegistry[step.op] ELSE {}
        missingToolCaps == requiredToolCaps \ step.tool_caps
        invalidToolCaps == {c \in step.tool_caps : ~hasKind(caps, c, "ToolCap")}
        v1 == IF missingToolCaps # {}
              THEN <<[step_index |-> stepIndex, violation_type |-> "missing_tool_cap",
                      required |-> requiredToolCaps, available |-> step.tool_caps,
                      subject |-> missingToolCaps, entity |-> TextTok]>>
              ELSE <<>>
        v2 == IF invalidToolCaps # {}
              THEN <<[step_index |-> stepIndex, violation_type |-> "missing_tool_cap",
                      required |-> step.tool_caps,
                      available |-> {c \in DOMAIN caps : caps[c].kind = "ToolCap"},
                      subject |-> invalidToolCaps, entity |-> TextTok]>>
              ELSE <<>>
    IN v1 \o v2

\* no string of the arguments is taken for an entity id
extractEntityReferencesNone(args) == <<>>

extractEntityReferences(args) == SelectLeaves(args, TRUE, 1)

RECURSIVE entityViolations(_, _, _, _, _, _)
entityViolations(caps, step, stepIndex, entityMap, ids, i) ==
    IF i > Len(ids) THEN <<>>
    ELSE LET entityId == ids[i]
             rest == entityViolations(caps, step, stepIndex, entityMap, ids, i + 1)
         IN IF entityId \notin DOMAIN entityMap THEN rest
            ELSE LET entityDataCaps ==
                         {c \in entityMap[entityId] : hasKind(caps, c, "DataCap")}
                     missingDataCaps == entityDataCaps \ step.data_caps
                 IN IF missingDataCaps # {}
                    THEN <<[step_index |-> stepIndex,
                            violation_type |-> "missing_data_cap",
                            required |-> entityDataCaps, available |-> step.data_caps,
                            subject |-> missingDataCaps, entity |-> entityId]>> \o rest
                    ELSE rest

\* an id of the arguments that names no checked entity is a violation
validateDataCapabilitiesFailClosed(caps, step, stepIndex, entityMap) ==
    LET consumedEntityIds == extractEntityReferences(step.args)
        unresolved == {id \in SeqToSet(consumedEntityIds) : id \notin DOMAIN entityMap}
    IN (IF unresolved # {}
        THEN <<[step_index |-> stepIndex, violation_type |-> "missing_data_cap",
                required |-> {}, available |-> step.data_caps,
                subject |-> {}, entity |-> CHOOSE id \in unresolved : TRUE]>>
        ELSE <<>>)
       \o entityViolations(caps, step, stepIndex, entityMap, consumedEntityIds, 1)

validateDataCapabilities(caps, step, stepIndex, entityMap) ==
    LET consumedEntityIds == extractEntityReferences(step.args)
        invalidDataCaps == {c \in step.data_caps : ~hasKind(caps, c, "DataCap")}
        v2 == IF invalidDataCaps # {}
              THEN <<[step_index |-> stepIndex, violation_type |-> "missing_data_cap",
                      required |-> step.data_caps,
                      available |-> {c \in DOMAIN caps : caps[c].kind = "DataCap"},
                      subject |-> invalidDataCaps, entity |-> TextTok]>>
              ELSE <<>>
    IN entityViolations(caps, step, stepIndex, entityMap, consumedEntityIds, 1) \o v2

\* PolicyEngine.validateStep(step, entities): the requirement map it hands to
\* validateToolCapabilities is the empty object
EmptyRegistry == [op \in {} |-> {}]

validateStep(caps, step, entityMap) ==
    validateToolCapabilities(caps, step, 0, EmptyRegistry)
        \o validateDataCapabilities(caps, step, 0, entityMap)

\* String(dep) for each dep of an array
mapString(s) == {ToString(s[k]) : k \in 1..Len(s)}

RECURSIVE depViolations(_, _, _, _, _)
\* one pass of the loop of validateDependencies over step.deps[k..]
depViolations(step, stepIndex, totalSteps, k, forward) ==
    IF k > Len(step.deps) THEN <<>>
    ELSE LET dep == step.deps[k]
             range == IF dep < 0 \/ dep >= totalSteps
                      THEN <<[step_index |-> stepIndex,
                              violation_type |-> "invalid_dependency",
                              required |-> mapString(step.deps),
                              available |-> {ToString(i) : i \in 0..(totalSteps - 1)},
                              subject |-> {ToString(dep)}, entity |-> TextTok]>>
                      ELSE <<>>
             order == IF forward /\ dep >= stepIndex
                      THEN <<[step_index |-> stepIndex,
                              violation_type |-> "invalid_dependency",
                              required |-> mapString(step.deps),
                              available |-> {ToString(i) : i \in 0..(stepIndex - 1)},
                              subject |-> {ToString(dep)}, entity |-> TextTok]>>
                      ELSE <<>>
         IN range \o order \o depViolations(step, stepIndex, totalSteps, k + 1, forward)

\* the check that a dependency refers to an earlier step is left out
validateDependenciesRangeOnly(step, stepIndex, totalSteps) ==
    depViolations(step, stepIndex, totalSteps, 1, FALSE)

validateDependencies(step, stepIndex, totalSteps) ==
    depViolations(step, stepIndex, totalSteps, 1, TRUE)

RECURSIVE validatePlanFrom(_, _, _, _, _)
validatePlanFrom(caps, steps, entityMap, toolRegistry, stepIndex) ==
    IF stepIndex >= Len(steps) THEN <<>>
    ELSE validateToolCapabilities(caps, steps[stepIndex + 1], stepIndex, toolRegistry)
            \o validateDataCapabilities(caps, steps[stepIndex + 1], stepIndex, entityMap)
            \o validateDependencies(steps[stepIndex + 1], stepIndex, Len(steps))
            \o validatePlanFrom(caps, steps, entityMap, toolRegistry, stepIndex + 1)

\* PolicyEngine.validatePlan(plan, entities, toolRegistry)
validatePlan(caps, steps, entityMap, toolRegistry) ==
    validatePlanFrom(caps, steps, entityMap, toolRegistry, 0)

\* the entity list executePlan hands to validateStep is the empty array
NoEntities == [id \in {} |-> {}]

(***************************************************************************)
(* Execution order                                                         *)
(***************************************************************************)
StepAt(steps, index) == steps[index + 1]

RECURSIVE visit(_, _, _), visitDeps(_, _, _, _)
\* a revisit of a step that is being visited returns instead of throwing
visitNoThrow(steps, index, st) ==
    IF st.error # "none" THEN st
    ELSE IF index \in st.visiting THEN st
    ELSE IF index \in st.visited THEN st
    ELSE IF index \notin 0..(Len(steps) - 1)
         THEN [st EXCEPT !.error = "type_error"]
    ELSE LET st1 == [st EXCEPT !.visiting = @ \cup {index}]
             st2 == visitDeps(steps, index, 1, st1)
         IN IF st2.error # "none" THEN st2
            ELSE [st2 EXCEPT !.visiting = @ \ {index},
                             !.visited = @ \cup {index},
                             !.result = Append(@, index)]

visit(steps, index, st) ==
    IF st.error # "none" THEN st
    ELSE IF index \in st.visiting THEN [st EXCEPT !.error = "circular"]
    ELSE IF index \in st.visited THEN st
    ELSE IF index \notin 0..(Len(steps) - 1)
         THEN [st EXCEPT !.error = "type_error"]      \* steps[index] is undefined
    ELSE LET st1 == [st EXCEPT !.visiting = @ \cup {index}]
             st2 == visitDeps(steps, index, 1, st1)
         IN IF st2.error # "none" THEN st2
            ELSE [st2 EXCEPT !.visiting = @ \ {index},
                             !.visited = @ \cup {index},
                             !.result = Append(@, index)]

\* the dependencies are not visited first
visitDepsSkipped(steps, index, k, st) == st

visitDeps(steps, index, k, st) ==
    LET deps == StepAt(steps, index).deps
    IN IF st.error # "none" \/ k > Len(deps) THEN st
       ELSE IF deps[k] >= Len(steps)
            THEN [st EXCEPT !.error = "invalid_dependency"]
       ELSE visitDeps(steps, index, k + 1, visit(steps, deps[k], st))

RECURSIVE visitAll(_, _, _)
visitAll(steps, i, st) ==
    IF i >= Len(steps) THEN st ELSE visitAll(steps, i + 1, visit(steps, i, st))

\* [error, result]: error = "none" when the order result is returned
topologicalSort(steps) ==
    visitAll(steps, 0,
             [visited |-> {}, visiting |-> {}, result |-> <<>>, error |-> "none"])

\* every result recorded so far is handed to the step
buildStepContextAll(step, stepResults) == stepResults

\* the references handed to a step: results of the steps it depends on
buildStepContext(step, stepResults) ==
    [d \in {x \in SeqToSet(step.deps) : x \in DOMAIN stepResults} |-> stepResults[d]]

RECURSIVE contextLeaves(_, _, _)
contextLeaves(step, context, k) ==
    IF k > Len(step.deps) THEN <<>>
    ELSE LET d == step.deps[k]
             firstAt == CHOOSE j \in 1..k : step.deps[j] = d
         IN (IF d \in DOMAIN context /\ firstAt = k THEN context[d] ELSE <<>>)
                \o contextLeaves(step, context, k + 1)

\* ids found in step.args, then in the context (one key per dependency)
getConsumedEntities(step, context) ==
    SelectLeaves(step.args, FALSE, 1)
        \o SelectLeaves(contextLeaves(step, context, 1), FALSE, 1)

(***************************************************************************)
(* Executor                                                                *)
(***************************************************************************)
MaxToolUses == 1     \* tool_use blocks in one executor reply

\* the entity built by the create_document handler
createDocumentEntity(id) == [id |-> id, capabilities |-> {"share_with:team"}]

\* tool.handler(block.input, context): the string leaves of the returned
\* value and the entities it carries.  create_document returns the id of the
\* entity it builds and the entity; send_message returns a fresh message id.
toolHandler(op, r, stepIndex, k) ==
    IF op = "create_document"
    THEN [output |-> <<Id(r, stepIndex, k), Id(r, stepIndex, k), TextTok>>,
          entities |-> <<createDocumentEntity(Id(r, stepIndex, k))>>]
    ELSE IF op = "send_message"
    THEN [output |-> <<Id(r, stepIndex, 0 - k), TextTok>>, entities |-> <<>>]
    ELSE [output |-> <<TextTok>>, entities |-> <<>>]

RECURSIVE processClaudeResponse(_, _, _, _, _)
processClaudeResponse(op, r, stepIndex, uses, k) ==
    IF k > uses THEN [output |-> <<>>, entities |-> <<>>]
    ELSE LET this == toolHandler(op, r, stepIndex, k)
             rest == processClaudeResponse(op, r, stepIndex, uses, k + 1)
         IN [output |-> IF k = uses THEN this.output ELSE rest.output,
             entities |-> this.entities \o rest.entities]

(***************************************************************************)
(* Plans found in the plans table                                          *)
(***************************************************************************)
Step(op, args, tool_caps, data_caps) ==
    [op |-> op, args |-> args, tool_caps |-> tool_caps, data_caps |-> data_caps,
     deps |-> <<>>]

StepKinds ==
    { Step("create_document", <<TextTok>>, {"WRITE_FILE"}, {"share_with:team"}),
      Step("create_document", <<>>, {}, {}),
      Step("create_document", <<SeedEntity>>, {"WRITE_FILE"}, {}),
      Step("send_message", <<SeedEntity>>, {"SEND_EMAIL"}, {"pii_allowed"}),
      Step("send_message", <<>>, {"SEND_EMAIL", "share_with:team"}, {}),
      Step("send_message", <<TextTok>>, {"SEND_EMAIL"}, {"UNREGISTERED"}),
      Step("delete_everything", <<>>, {}, {}),
      Step("analyze_content", <<LooseTok>>, {}, {}) }

BenignStep == Step("analyze_content", <<>>, {}, {})

WithDeps(step, deps) == [step EXCEPT !.deps = deps]

LinearDeps(i) == IF i = 0 THEN {<<>>} ELSE {<<>>, <<i - 1>>}

CapPlans(len) ==
    {p \in [1..len -> {WithDeps(k, d) : k \in StepKinds, d \in UNION {LinearDeps(i) : i \in 0..len}}] :
        \A i \in 1..len : p[i].deps \in LinearDeps(i - 1)}

DepPlans(len) ==
    [1..len -> {WithDeps(BenignStep, d) : d \in {<<>>} \cup {<<x>> : x \in -1..len}}]

PlanSet == UNION {CapPlans(len) \cup DepPlans(len) : len \in 0..MaxSteps}

SortDeps(len) ==
    {<<>>, <<-1>>, <<len>>} \cup UNION {[1..k -> 0..(len - 1)] : k \in 1..MaxSortDeps}

SortPlans ==
    UNION {[1..len -> {[deps |-> d] : d \in SortDeps(len)}] : len \in 0..MaxSortSteps}

(***************************************************************************)
(* State                                                                   *)
(***************************************************************************)
NoPending == [output |-> <<>>, entities |-> <<>>]

IdleRequest ==
    [pc |-> "idle", plan_id |-> "p1", steps |-> <<>>, sortedSteps |-> <<>>,
     pos |-> 1, stepResults |-> [i \in {} |-> <<>>], context |-> [i \in {} |-> <<>>],
     pending |-> NoPending, executedSteps |-> 0, failedSteps |-> 0,
     success |-> FALSE, error |-> "none", response |-> "none", invoked |-> <<>>,
     entered |-> FALSE]

NoSort == [visited |-> {}, visiting |-> {}, result |-> <<>>, error |-> "unset"]

SeedEntities == [id \in {SeedEntity} |-> {"pii_allowed"}]

NumUpdates == 1      \* update requests that can be in flight together
Updates == 1..NumUpdates

NoCapability == [kind |-> "none", scope |-> "none", description |-> "none", is_system |-> FALSE]

IdleUpdate == [pc |-> "idle", id |-> "none", existing |-> NoCapability]

NoReply == [op |-> "none", id |-> "none", status |-> "none"]

\* no add-tool-provider request received, no connection attempt started
IdleAdd == [pc |-> "idle", name |-> "none", attempt |-> "none"]

NoPolicyIn == [steps |-> <<>>, entityMap |-> NoEntities, toolRegistry |-> EmptyRegistry]
NoPolicyOut == [ran |-> FALSE, plan |-> <<>>, steps |-> <<>>, resolved |-> <<>>]

\* no tool provider connected, no request received, empty tables apart from
\* one stored entity
NoTraffic ==
    /\ tools = DefaultTools
    /\ servers = {}
    /\ mcpTools = {}
    /\ add = IdleAdd
    /\ entities = SeedEntities
    /\ events = <<>>
    /\ req = [r \in Requests |-> IdleRequest]
    /\ upd = [u \in Updates |-> IdleUpdate]
    /\ reply = NoReply
    /\ promptLog = <<>>

\* the server after start() when no tool provider could be connected
ServerStarted ==
    /\ capabilities = DefaultCapabilities
    /\ capRows = DefaultCapabilities
    /\ NoTraffic

NoPlans == [id \in {} |-> [steps |-> <<>>, status |-> "pending"]]

NoPureRun ==
    /\ sortIn = <<>>
    /\ sortOut = NoSort
    /\ polIn = NoPolicyIn
    /\ polOut = NoPolicyOut

Init ==
    /\ ServerStarted
    /\ NoPureRun
    /\ \E steps \in PlanSet :
          plans = [id \in {"p1"} |-> [steps |-> steps, status |-> "pending"]]

SyncPcs == {"sort", "loop", "store", "stepFailed", "finalize"}

\* some handler holds the thread
Busy == \E r \in Requests : req[r].pc \in SyncPcs

\* the UPDATE is left out
updatePlanStatusDropped(tbl, planId, status) == tbl

\* UPDATE plans SET status WHERE id
updatePlanStatus(tbl, planId, status) ==
    [id \in DOMAIN tbl |-> IF id = planId THEN [tbl[id] EXCEPT !.status = status] ELSE tbl[id]]

RECURSIVE storeEntities(_, _, _)
storeEntities(tbl, ents, k) ==
    IF k > Len(ents) THEN tbl
    ELSE storeEntities(
            [id \in DOMAIN tbl \cup {ents[k].id} |->
                IF id = ents[k].id THEN ents[k].capabilities ELSE tbl[id]],
            ents, k + 1)

\* the INSERT is left out
storeEventDropped(tbl, event) == tbl

\* the new row is put before the rows of the table
storeEventFirst(tbl, event) == <<event>> \o tbl

\* INSERT INTO events
storeEvent(tbl, event) == Append(tbl, event)

(***************************************************************************)
(* handleExecutePlan: lookup, entry guard, mark executing                  *)
(***************************************************************************)
entryGuardNoExecuting(status) ==
    IF status = "completed" THEN "already_completed" ELSE "proceed"

\* the entry guard: the status strings that reject the request
entryGuard(status) ==
    IF status = "executing" THEN "already_executing"
    ELSE IF status = "completed" THEN "already_completed"
    ELSE "proceed"

handleExecutePlan(r, planId) ==
    /\ req[r].pc = "idle"
    /\ ~Busy
    /\ IF planId \notin DOMAIN plans
       THEN /\ req' = [req EXCEPT ![r].pc = "done", ![r].plan_id = planId,
                                  ![r].response = "not_found"]
            /\ UNCHANGED plans
       ELSE IF entryGuard(plans[planId].status) # "proceed"
       THEN /\ req' = [req EXCEPT ![r].pc = "done", ![r].plan_id = planId,
                                  ![r].response = entryGuard(plans[planId].status)]
            /\ UNCHANGED plans
       ELSE /\ plans' = updatePlanStatus(plans, planId, "executing")
            /\ req' = [req EXCEPT ![r].pc = "sort", ![r].plan_id = planId,
                                  ![r].steps = plans[planId].steps,
                                  ![r].entered = TRUE]
    /\ UNCHANGED <<capabilities, tools, entities, events, pureVars, adminVars, promptLog>>

(***************************************************************************)
(* executePlan: order the steps                                            *)
(***************************************************************************)
executePlanSort(r) ==
    /\ req[r].pc = "sort"
    /\ LET sorted == topologicalSort(req[r].steps)
       IN IF sorted.error # "none"
          THEN req' = [req EXCEPT ![r].pc = "finalize", ![r].success = FALSE,
                                  ![r].error = sorted.error]
          ELSE req' = [req EXCEPT ![r].pc = "loop", ![r].sortedSteps = sorted.result,
                                  ![r].pos = 1]
    /\ UNCHANGED <<capabilities, tools, plans, entities, events, pureVars, adminVars, promptLog>>

(***************************************************************************)
(* executePlan: next step of the loop up to the executor's network call    *)
(***************************************************************************)
hasViolationsIgnored(violations) == FALSE

\* if (violations.length > 0) throw
hasViolations(violations) == Len(violations) > 0

executePlanStep(r) ==
    /\ req[r].pc = "loop"
    /\ IF req[r].pos > Len(req[r].sortedSteps)
       THEN req' = [req EXCEPT ![r].pc = "finalize", ![r].success = TRUE]
       ELSE LET stepIndex == req[r].sortedSteps[req[r].pos]
                step == StepAt(req[r].steps, stepIndex)
                context == buildStepContext(step, req[r].stepResults)
                violations == validateStep(capabilities, step, NoEntities)
            IN IF hasViolations(violations)
               THEN req' = [req EXCEPT ![r].pc = "stepFailed", ![r].error = "policy"]
               ELSE IF step.op \notin DOMAIN tools
               THEN req' = [req EXCEPT ![r].pc = "stepFailed", ![r].error = "unknown_op",
                                       ![r].invoked = Append(@, stepIndex)]
               ELSE req' = [req EXCEPT ![r].pc = "awaitExec", ![r].context = context,
                                       ![r].invoked = Append(@, stepIndex)]
    /\ UNCHANGED <<capabilities, tools, plans, entities, events, pureVars, adminVars, promptLog>>

(***************************************************************************)
(* ExecutorAgent.executeStep returns                                       *)
(***************************************************************************)
\* the step is tried again when the executor answers
executeStepReturnsRetry(r) ==
    /\ req[r].pc = "awaitExec"
    /\ ~Busy
    /\ req' = [req EXCEPT ![r].pc = "loop"]
    /\ UNCHANGED <<capabilities, tools, plans, entities, events, pureVars, adminVars, promptLog>>

executeStepReturns(r) ==
    /\ req[r].pc = "awaitExec"
    /\ ~Busy
    /\ LET stepIndex == req[r].sortedSteps[req[r].pos]
           step == StepAt(req[r].steps, stepIndex)
       IN \/ req' = [req EXCEPT ![r].pc = "stepFailed", ![r].error = "executor"]
          \/ \E uses \in 0..MaxToolUses :
                req' = [req EXCEPT ![r].pc = "store",
                            ![r].pending = processClaudeResponse(step.op, r, stepIndex, uses, 1)]
    /\ UNCHANGED <<capabilities, tools, plans, entities, events, pureVars, adminVars, promptLog>>

(***************************************************************************)
(* executePlan: a step succeeded                                           *)
(***************************************************************************)
executePlanStore(r) ==
    /\ req[r].pc = "store"
    /\ LET stepIndex == req[r].sortedSteps[req[r].pos]
           step == StepAt(req[r].steps, stepIndex)
           response == req[r].pending
           event == [exec |-> r, plan_id |-> req[r].plan_id, step_index |-> stepIndex,
                     op |-> step.op,
                     produces |-> [k \in 1..Len(response.entities) |-> response.entities[k].id],
                     consumes |-> getConsumedEntities(step, req[r].context),
                     error |-> "none"]
       IN /\ entities' = storeEntities(entities, response.entities, 1)
          /\ events' = storeEvent(events, event)
          /\ req' = [req EXCEPT ![r].pc = "loop",
                        ![r].stepResults =
                            [i \in DOMAIN @ \cup {stepIndex} |->
                                IF i = stepIndex THEN response.output ELSE @[i]],
                        ![r].pending = NoPending,
                        ![r].executedSteps = @ + 1,
                        ![r].pos = @ + 1]
    /\ UNCHANGED <<capabilities, tools, plans, pureVars, adminVars, promptLog>>

(***************************************************************************)
(* executePlan: a step failed                                              *)
(***************************************************************************)
executePlanFailContinue(r) ==
    /\ req[r].pc = "stepFailed"
    /\ LET stepIndex == req[r].sortedSteps[req[r].pos]
           step == StepAt(req[r].steps, stepIndex)
           errorEvent == [exec |-> r, plan_id |-> req[r].plan_id, step_index |-> stepIndex,
                          op |-> step.op, produces |-> <<>>, consumes |-> <<>>,
                          error |-> req[r].error]
       IN /\ events' = storeEvent(events, errorEvent)
          /\ req' = [req EXCEPT ![r].pc = "loop", ![r].pos = @ + 1,
                                ![r].failedSteps = @ + 1]
    /\ UNCHANGED <<capabilities, tools, plans, entities, pureVars, adminVars, promptLog>>

executePlanFail(r) ==
    /\ req[r].pc = "stepFailed"
    /\ LET stepIndex == req[r].sortedSteps[req[r].pos]
           step == StepAt(req[r].steps, stepIndex)
           errorEvent == [exec |-> r, plan_id |-> req[r].plan_id, step_index |-> stepIndex,
                          op |-> step.op, produces |-> <<>>, consumes |-> <<>>,
                          error |-> req[r].error]
       IN /\ events' = storeEvent(events, errorEvent)
          /\ req' = [req EXCEPT ![r].pc = "finalize", ![r].success = FALSE,
                                ![r].failedSteps = @ + 1]
    /\ UNCHANGED <<capabilities, tools, plans, entities, pureVars, adminVars, promptLog>>

(***************************************************************************)
(* handleExecutePlan: final status and response                            *)
(***************************************************************************)
handleExecutePlanFinish(r) ==
    /\ req[r].pc = "finalize"
    /\ LET finalStatus == IF req[r].success THEN "completed" ELSE "failed"
       IN /\ plans' = updatePlanStatus(plans, req[r].plan_id, finalStatus)
          /\ req' = [req EXCEPT ![r].pc = "done", ![r].response = finalStatus]
    /\ UNCHANGED <<capabilities, tools, entities, events, pureVars, adminVars, promptLog>>

Next ==
    \/ \E r \in Requests, planId \in PlanIds : handleExecutePlan(r, planId)
    \/ \E r \in Requests : executePlanSort(r)
    \/ \E r \in Requests : executePlanStep(r)
    \/ \E r \in Requests : executeStepReturns(r)
    \/ \E r \in Requests : executePlanStore(r)
    \/ \E r \in Requests : executePlanFail(r)
    \/ \E r \in Requests : handleExecutePlanFinish(r)

Spec == Init /\ [][Next]_vars

(***************************************************************************)
(* Execution when persistence calls can throw.  Each action below is the   *)
(* path a handler takes when one of its db.all / db.run calls throws; the  *)
(* recovery write of the catch block of handleExecutePlan can throw too.   *)
(***************************************************************************)
\* catch block of handleExecutePlan: try updatePlanStatus(planId, "failed"),
\* swallow its error, answer status failed
recoverFailed(planId) ==
    \/ plans' = updatePlanStatus(plans, planId, "failed")
    \/ UNCHANGED plans

\* the SELECT of the plan throws
handleExecutePlanLookupFails(r, planId) ==
    /\ req[r].pc = "idle"
    /\ ~Busy
    /\ req' = [req EXCEPT ![r].pc = "done", ![r].plan_id = planId,
                          ![r].response = "failed", ![r].error = "store"]
    /\ recoverFailed(planId)
    /\ UNCHANGED <<capabilities, tools, entities, events, pureVars, adminVars, promptLog>>

\* the write of status executing throws
handleExecutePlanMarkFails(r, planId) ==
    /\ req[r].pc = "idle"
    /\ ~Busy
    /\ planId \in DOMAIN plans
    /\ entryGuard(plans[planId].status) = "proceed"
    /\ req' = [req EXCEPT ![r].pc = "done", ![r].plan_id = planId,
                          ![r].steps = plans[planId].steps, ![r].entered = TRUE,
                          ![r].response = "failed", ![r].error = "store"]
    /\ recoverFailed(planId)
    /\ UNCHANGED <<capabilities, tools, entities, events, pureVars, adminVars, promptLog>>

\* storeEntity throws for the entity after the first k, or storeEvent throws
executePlanStoreFails(r) ==
    /\ req[r].pc = "store"
    /\ \E k \in 0..Len(req[r].pending.entities) :
          entities' = storeEntities(entities, SubSeq(req[r].pending.entities, 1, k), 1)
    /\ req' = [req EXCEPT ![r].pc = "stepFailed", ![r].error = "store",
                          ![r].stepResults =
                              [i \in DOMAIN @ \cup {req[r].sortedSteps[req[r].pos]} |->
                                  IF i = req[r].sortedSteps[req[r].pos]
                                  THEN req[r].pending.output ELSE @[i]],
                          ![r].pending = NoPending]
    /\ UNCHANGED <<capabilities, tools, plans, events, pureVars, adminVars, promptLog>>

\* storeEvent(errorEvent) throws: the error leaves the step's catch block
executePlanFailEventFails(r) ==
    /\ req[r].pc = "stepFailed"
    /\ req' = [req EXCEPT ![r].pc = "finalize", ![r].success = FALSE,
                          ![r].failedSteps = @ + 1]
    /\ UNCHANGED <<capabilities, tools, plans, entities, events, pureVars, adminVars, promptLog>>

\* the write of the final status throws
handleExecutePlanFinishFails(r) ==
    /\ req[r].pc = "finalize"
    /\ req' = [req EXCEPT ![r].pc = "done", ![r].response = "failed"]
    /\ recoverFailed(req[r].plan_id)
    /\ UNCHANGED <<capabilities, tools, entities, events, pureVars, adminVars, promptLog>>

NextFaulty ==
    \/ Next
    \/ \E r \in Requests, planId \in PlanIds : handleExecutePlanLookupFails(r, planId)
    \/ \E r \in Requests, planId \in PlanIds : handleExecutePlanMarkFails(r, planId)
    \/ \E r \in Requests : executePlanStoreFails(r)
    \/ \E r \in Requests : executePlanFailEventFails(r)
    \/ \E r \in Requests : handleExecutePlanFinishFails(r)

SpecFaulty == Init /\ [][NextFaulty]_vars

(***************************************************************************)
(* Capability registry and tool providers                                  *)
(***************************************************************************)
\* Map.set / Map.delete, INSERT OR REPLACE / DELETE
mapSet(f, k, v) == [x \in DOMAIN f \cup {k} |-> IF x = k THEN v ELSE f[x]]

\* the key stays in the map
mapDeleteNone(f, k) == f

mapDelete(f, k) == [x \in DOMAIN f \ {k} |-> f[x]]

ServerNames == {"filesystem"}

\* MCPAgent.getRequiredCapabilities: one capability per connected server
mcpCapabilityId(serverName) == "MCP_TOOL:" \o serverName
getRequiredCapabilities(names) ==
    [id \in {mcpCapabilityId(n) : n \in names} |->
        [kind |-> "ToolCap", scope |-> "mcp", description |-> "d1", is_system |-> FALSE]]

\* ids that requests name: a system capability, a custom one, a provider's
CapIds == {"WRITE_FILE", "audit_log", mcpCapabilityId("filesystem")}

\* cap.id.startsWith('MCP_TOOL:')
startsWithMCPTool(id) == id \in {mcpCapabilityId(n) : n \in ServerNames}

\* request bodies; "absent" is a field the body does not carry
Bodies ==
    [kind : {"ToolCap", "DataCap", "Bogus", "absent"},
     scope : {"s1", "absent"},
     description : {"d2", "absent"}]

Reply(op, id, status) == [op |-> op, id |-> id, status |-> status]

\* the system check is left out
isSystemIgnored(cap) == FALSE

\* (existing as any).is_system
isSystem(cap) == cap.is_system

\* the existence check is left out
existsIgnored(caps, id) == FALSE

\* const existing = this.policy.getCapability(id); if (existing)
exists(caps, id) == id \in DOMAIN caps

\* POST /capabilities
handleAddCapability(id, body) ==
    /\ IF body.kind \notin {"ToolCap", "DataCap"} \/ body.scope = "absent"
       THEN /\ reply' = Reply("add", id, "bad_request")
            /\ UNCHANGED <<capabilities, capRows>>
       ELSE IF exists(capabilities, id)
       THEN /\ reply' = Reply("add", id, "conflict")
            /\ UNCHANGED <<capabilities, capRows>>
       ELSE LET capability ==
                    [kind |-> body.kind, scope |-> body.scope,
                     description |-> IF body.description = "absent" THEN "null"
                                     ELSE body.description,
                     is_system |-> FALSE]
            IN /\ capabilities' = mapSet(capabilities, id, capability)
               /\ capRows' = mapSet(capRows, id, capability)
               /\ reply' = Reply("add", id, "ok")
    /\ UNCHANGED <<tools, plans, entities, events, req, pureVars, servers, providerVars, upd, promptLog>>

\* PUT /capabilities/:id up to the read of the request body
handleUpdateCapability(u, id) ==
    /\ upd[u].pc = "idle"
    /\ IF ~exists(capabilities, id)
       THEN /\ reply' = Reply("update", id, "not_found")
            /\ UNCHANGED upd
       ELSE IF isSystem(capabilities[id])
       THEN /\ reply' = Reply("update", id, "forbidden")
            /\ UNCHANGED upd
       ELSE /\ upd' = [upd EXCEPT ![u] = [pc |-> "reading", id |-> id,
                                          existing |-> capabilities[id]]]
            /\ UNCHANGED reply
    /\ UNCHANGED <<capabilities, tools, plans, entities, events, req, pureVars,
                   capRows, servers, providerVars, promptLog>>

\* the fields of the body replace those of the capability read before
updatedCapability(existing, body) ==
    [existing EXCEPT
        !.kind = IF body.kind = "absent" THEN existing.kind ELSE body.kind,
        !.scope = IF body.scope = "absent" THEN existing.scope ELSE body.scope,
        !.description = IF body.description = "absent" THEN existing.description
                        ELSE body.description]

\* UPDATE capabilities SET kind, scope, description, metadata WHERE id
updateRow(rows, id, cap) ==
    IF id \in DOMAIN rows
    THEN [rows EXCEPT ![id] = [@ EXCEPT !.kind = cap.kind, !.scope = cap.scope,
                                        !.description = cap.description]]
    ELSE rows

\* PUT /capabilities/:id once the request body has been read
handleUpdateCapabilityBody(u, body) ==
    /\ upd[u].pc = "reading"
    /\ IF body.kind \notin {"ToolCap", "DataCap", "absent"}
       THEN /\ reply' = Reply("update", upd[u].id, "bad_request")
            /\ UNCHANGED <<capabilities, capRows>>
       ELSE LET updated == updatedCapability(upd[u].existing, body)
            IN /\ capabilities' = mapSet(capabilities, upd[u].id, updated)
               /\ capRows' = updateRow(capRows, upd[u].id, updated)
               /\ reply' = Reply("update", upd[u].id, "ok")
    /\ upd' = [upd EXCEPT ![u] = IdleUpdate]
    /\ UNCHANGED <<tools, plans, entities, events, req, pureVars, servers, providerVars, promptLog>>

\* DELETE /capabilities/:id
handleDeleteCapability(id) ==
    /\ IF ~exists(capabilities, id)
       THEN /\ reply' = Reply("delete", id, "not_found")
            /\ UNCHANGED <<capabilities, capRows>>
       ELSE IF isSystem(capabilities[id])
       THEN /\ reply' = Reply("delete", id, "forbidden")
            /\ UNCHANGED <<capabilities, capRows>>
       ELSE /\ capabilities' = mapDelete(capabilities, id)
            /\ capRows' = mapDelete(capRows, id)
            /\ reply' = Reply("delete", id, "ok")
    /\ UNCHANGED <<tools, plans, entities, events, req, pureVars, servers, providerVars, upd, promptLog>>

\* refreshMCPCapabilities: drop the MCP_TOOL: capabilities of servers that are
\* gone, add those of connected servers that the registry does not hold
refreshMCPCapabilities(caps, names) ==
    LET new == getRequiredCapabilities(names)
        kept == {id \in DOMAIN caps : ~(startsWithMCPTool(id) /\ id \notin DOMAIN new)}
    IN [id \in kept \cup DOMAIN new |-> IF id \in kept THEN caps[id] ELSE new[id]]

refreshMCPRows(rows, caps, names) ==
    LET new == getRequiredCapabilities(names)
        removed == {id \in DOMAIN caps : startsWithMCPTool(id) /\ id \notin DOMAIN new}
        added == {id \in DOMAIN new : id \notin DOMAIN caps}
    IN [id \in (DOMAIN rows \ removed) \cup added |->
            IF id \in added THEN new[id] ELSE rows[id]]

\* POST /mcp/servers: the server connects or the attempt fails
handleAddMCPServer(name) ==
    /\ IF name \in servers
       THEN /\ reply' = Reply("add_server", name, "conflict")
            /\ UNCHANGED <<capabilities, capRows, servers, mcpTools>>
       ELSE \/ /\ reply' = Reply("add_server", name, "error")
               /\ UNCHANGED <<capabilities, capRows, servers, mcpTools>>
            \/ /\ servers' = servers \cup {name}
               /\ mcpTools' = mcpTools \cup {name}
               /\ capabilities' = refreshMCPCapabilities(capabilities, servers \cup {name})
               /\ capRows' = refreshMCPRows(capRows, capabilities, servers \cup {name})
               /\ reply' = Reply("add_server", name, "ok")
    /\ UNCHANGED <<tools, plans, entities, events, req, pureVars, upd, add, promptLog>>

\* DELETE /mcp/servers/:name
handleRemoveMCPServer(name) ==
    /\ IF name \notin servers
       THEN /\ reply' = Reply("remove_server", name, "not_found")
            /\ UNCHANGED <<capabilities, capRows, servers, mcpTools>>
       ELSE /\ servers' = servers \ {name}
            /\ mcpTools' = mcpTools \ {name}
            /\ capabilities' = refreshMCPCapabilities(capabilities, servers \ {name})
            /\ capRows' = refreshMCPRows(capRows, capabilities, servers \ {name})
            /\ reply' = Reply("remove_server", name, "ok")
    /\ UNCHANGED <<tools, plans, entities, events, req, pureVars, upd, add, promptLog>>

InitAdmin ==
    /\ ServerStarted
    /\ NoPureRun
    /\ plans = NoPlans

NextAdmin ==
    \/ \E id \in CapIds, body \in Bodies : handleAddCapability(id, body)
    \/ \E u \in Updates, id \in CapIds : handleUpdateCapability(u, id)
    \/ \E u \in Updates, body \in Bodies : handleUpdateCapabilityBody(u, body)
    \/ \E id \in CapIds : handleDeleteCapability(id)
    \/ \E name \in ServerNames : handleAddMCPServer(name)
    \/ \E name \in ServerNames : handleRemoveMCPServer(name)

SpecAdmin == InitAdmin /\ [][NextAdmin]_vars

(***************************************************************************)
(* POST /mcp/servers step by step: the handler waits for the connection    *)
(* attempt or for the 30-second timer, whichever settles the promise of    *)
(* addMCPServerWithTimeout first; the attempt goes on after the timer      *)
(***************************************************************************)
\* MCPClient.removeServer: without a client for the name nothing is removed
removeServer(names, name) == names \ {name}
removeServerTools(loaded, names, name) == IF name \in names THEN loaded \ {name} ELSE loaded

\* the attempt of MCPClient.addServer has neither thrown nor returned
AttemptPending == add.attempt \in {"connecting", "loading"}

\* up to `await this.addMCPServerWithTimeout(...)`
handleAddMCPServerBegin(name) ==
    /\ add.pc \in {"idle", "failed", "ok"}
    /\ ~AttemptPending
    /\ IF name \in servers
       THEN /\ reply' = Reply("add_server", name, "conflict")
            /\ add' = IdleAdd
       ELSE /\ add' = [pc |-> "waiting", name |-> name, attempt |-> "connecting"]
            /\ UNCHANGED reply
    /\ UNCHANGED <<capabilities, tools, plans, entities, events, req, pureVars,
                   capRows, servers, upd, mcpTools, promptLog>>

\* the catch block of handleAddMCPServer: removeServer, status 500
handleAddMCPServerCatch ==
    /\ servers' = removeServer(servers, add.name)
    /\ mcpTools' = removeServerTools(mcpTools, servers, add.name)
    /\ reply' = Reply("add_server", add.name, "error")

\* client.connect(transport) resolves: clients.set, configs.set
addServerConnected ==
    /\ add.attempt = "connecting"
    /\ servers' = servers \cup {add.name}
    /\ add' = [add EXCEPT !.attempt = "loading"]
    /\ UNCHANGED <<capabilities, tools, plans, entities, events, req, pureVars,
                   capRows, upd, reply, mcpTools, promptLog>>

\* client.connect(transport) rejects
addServerConnectFails ==
    /\ add.attempt = "connecting"
    /\ IF add.pc = "waiting"
       THEN /\ handleAddMCPServerCatch
            /\ add' = [add EXCEPT !.attempt = "failed", !.pc = "failed"]
       ELSE /\ add' = [add EXCEPT !.attempt = "failed"]
            /\ UNCHANGED <<servers, mcpTools, reply>>
    /\ UNCHANGED <<capabilities, tools, plans, entities, events, req, pureVars,
                   capRows, upd, promptLog>>

\* loadToolsFromServer: client.listTools() resolves on an open client
loadToolsFromServer ==
    /\ add.attempt = "loading"
    /\ add.name \in servers
    /\ mcpTools' = mcpTools \cup {add.name}
    /\ add' = [add EXCEPT !.attempt = "done",
                          !.pc = IF add.pc = "waiting" THEN "verifying" ELSE @]
    /\ UNCHANGED <<capabilities, tools, plans, entities, events, req, pureVars,
                   capRows, servers, upd, reply, promptLog>>

\* loadToolsFromServer: client.listTools() rejects (the client may be closed)
loadToolsFromServerFails ==
    /\ add.attempt = "loading"
    /\ IF add.pc = "waiting"
       THEN /\ handleAddMCPServerCatch
            /\ add' = [add EXCEPT !.attempt = "failed", !.pc = "failed"]
       ELSE /\ add' = [add EXCEPT !.attempt = "failed"]
            /\ UNCHANGED <<servers, mcpTools, reply>>
    /\ UNCHANGED <<capabilities, tools, plans, entities, events, req, pureVars,
                   capRows, upd, promptLog>>

\* the setTimeout callback of addMCPServerWithTimeout runs first
addMCPServerWithTimeout ==
    /\ add.pc = "waiting"
    /\ handleAddMCPServerCatch
    /\ add' = [add EXCEPT !.pc = "failed"]
    /\ UNCHANGED <<capabilities, tools, plans, entities, events, req, pureVars,
                   capRows, upd, promptLog>>

\* verifyMCPServerAddition once healthCheck has answered, then the refresh
\* of the registry or the rollback
verifyMCPServerAddition(healthy) ==
    /\ add.pc = "verifying"
    /\ IF healthy
       THEN /\ capabilities' = refreshMCPCapabilities(capabilities, servers)
            /\ capRows' = refreshMCPRows(capRows, capabilities, servers)
            /\ reply' = Reply("add_server", add.name, "ok")
            /\ add' = [add EXCEPT !.pc = "ok"]
            /\ UNCHANGED <<servers, mcpTools>>
       ELSE /\ handleAddMCPServerCatch
            /\ add' = [add EXCEPT !.pc = "failed"]
            /\ UNCHANGED <<capabilities, capRows>>
    /\ UNCHANGED <<tools, plans, entities, events, req, pureVars, upd, promptLog>>

InitProvider ==
    /\ ServerStarted
    /\ NoPureRun
    /\ plans = NoPlans

NextProvider ==
    \/ \E name \in ServerNames : handleAddMCPServerBegin(name)
    \/ addServerConnected
    \/ addServerConnectFails
    \/ loadToolsFromServer
    \/ loadToolsFromServerFails
    \/ addMCPServerWithTimeout
    \/ \E healthy \in BOOLEAN : verifyMCPServerAddition(healthy)
    \/ \E name \in ServerNames : handleRemoveMCPServer(name)
    \/ \E id \in CapIds, body \in Bodies : handleAddCapability(id, body)
    \/ \E id \in CapIds : handleDeleteCapability(id)

SpecProvider == InitProvider /\ [][NextProvider]_vars

(***************************************************************************)
(* handlePrompt: plan a prompt, check the candidate plan, store it if clean*)
(***************************************************************************)
MaxPrompts == 2      \* prompts submitted in one behaviour

\* plans the planner may answer with: every plan of at most one step, every
\* kind of step depending on itself, and two-step chains of two kinds
PromptPlans ==
    {p \in PlanSet : Len(p) <= 1}
        \cup {<<WithDeps(k, <<0>>)>> : k \in StepKinds}
        \cup {<<Step("create_document", <<TextTok>>, {"WRITE_FILE"}, {"share_with:team"}),
                WithDeps(k, <<0>>)>> :
                 k \in {Step("create_document", <<SeedEntity>>, {"WRITE_FILE"}, {}),
                        Step("send_message", <<>>, {"SEND_EMAIL", "share_with:team"}, {})}}

\* what planner.generatePlan does: throw, or return a plan with these steps
PlannerOutcomes ==
    {[ok |-> FALSE, steps |-> <<>>]} \cup {[ok |-> TRUE, steps |-> p] : p \in PromptPlans}

\* ids crypto.randomUUID has handed out to plans so far
UsedPlanIds == DOMAIN plans \cup {promptLog[i].plan_id : i \in 1..Len(promptLog)}

PromptResponse(plan_id, status, violations, requires_approval) ==
    [plan_id |-> plan_id, status |-> status, violations |-> violations,
     requires_approval |-> requires_approval]

\* every violation asks for approval
requiresApprovalAny(violations) == Len(violations) > 0

\* violations.some(v => missing_tool_cap || missing_data_cap)
requiresApproval(violations) ==
    \E i \in 1..Len(violations) :
        violations[i].violation_type \in {"missing_tool_cap", "missing_data_cap"}

\* the INSERT is left out
storePlanDropped(tbl, id, plan) == tbl

\* INSERT INTO plans
storePlan(tbl, id, plan) ==
    [x \in DOMAIN tbl \cup {id} |-> IF x = id THEN plan ELSE tbl[x]]

handlePrompt(content, planId, outcome) ==
    /\ ~Busy
    /\ Len(promptLog) < MaxPrompts
    /\ planId \notin UsedPlanIds
    /\ IF ~content
       THEN /\ promptLog' = Append(promptLog, PromptResponse("none", "bad_request", <<>>, FALSE))
            /\ UNCHANGED plans
       ELSE IF ~outcome.ok
       THEN /\ promptLog' = Append(promptLog, PromptResponse("none", "error", <<>>, FALSE))
            /\ UNCHANGED plans
       ELSE LET plan == [steps |-> outcome.steps, status |-> "pending"]
                violations == validatePlan(capabilities, plan.steps, NoEntities,
                                           getToolRegistry(tools))
            IN IF hasViolations(violations)
               THEN /\ promptLog' = Append(promptLog,
                            PromptResponse(planId, "policy_violation", violations,
                                           requiresApproval(violations)))
                    /\ UNCHANGED plans
               ELSE /\ plans' = storePlan(plans, planId, plan)
                    /\ promptLog' = Append(promptLog,
                            PromptResponse(planId, "approved", <<>>, FALSE))
    /\ UNCHANGED <<capabilities, tools, entities, events, req, pureVars, adminVars>>

InitPrompt ==
    /\ ServerStarted
    /\ NoPureRun
    /\ plans = NoPlans

NextPrompt ==
    \/ \E content \in BOOLEAN, planId \in PlanIds, outcome \in PlannerOutcomes :
          handlePrompt(content, planId, outcome)
    \/ Next

SpecPrompt == InitPrompt /\ [][NextPrompt]_vars

(***************************************************************************)
(* Plan execution while the capability registry is changed.  The registry  *)
(* holds one capability added through POST /capabilities, and the plans    *)
(* table one plan that passed validatePlan with that registry.             *)
(***************************************************************************)
AddedCapability ==
    [kind |-> "ToolCap", scope |-> "s1", description |-> "d2", is_system |-> FALSE]

LiveCapabilities == mapSet(DefaultCapabilities, "audit_log", AddedCapability)

LiveSteps ==
    { Step("create_document", <<TextTok>>, {"WRITE_FILE"}, {"share_with:team"}),
      Step("create_document", <<>>, {"WRITE_FILE", "audit_log"}, {}),
      Step("analyze_content", <<>>, {"audit_log"}, {}) }

\* the plans handlePrompt stores with this registry
LivePlans ==
    {p \in UNION {[1..len -> {WithDeps(k, d) : k \in LiveSteps, d \in {<<>>, <<0>>}}] :
                     len \in 1..MaxSteps} :
        validatePlan(LiveCapabilities, p, NoEntities, getToolRegistry(DefaultTools)) = <<>>}

LiveIds == {"audit_log"}

\* request bodies that change the kind of a capability or leave it
LiveBodies == {b \in Bodies : b.scope = "s1" /\ b.description = "absent"}

InitLive ==
    /\ capabilities = LiveCapabilities
    /\ capRows = LiveCapabilities
    /\ NoTraffic
    /\ NoPureRun
    /\ \E steps \in LivePlans :
          plans = [id \in {"p1"} |-> [steps |-> steps, status |-> "pending"]]

NextLive ==
    \/ Next
    \/ \E id \in LiveIds, body \in LiveBodies : ~Busy /\ handleAddCapability(id, body)
    \/ \E u \in Updates, id \in LiveIds : ~Busy /\ handleUpdateCapability(u, id)
    \/ \E u \in Updates, body \in LiveBodies : ~Busy /\ handleUpdateCapabilityBody(u, body)
    \/ \E id \in LiveIds : ~Busy /\ handleDeleteCapability(id)

SpecLive == InitLive /\ [][NextLive]_vars

(***************************************************************************)
(* Stand-alone specification of topologicalSort                            *)
(***************************************************************************)
InitSort ==
    /\ ServerStarted
    /\ plans = NoPlans
    /\ sortIn \in SortPlans
    /\ sortOut = NoSort
    /\ polIn = NoPolicyIn
    /\ polOut = NoPolicyOut

RunSort ==
    /\ sortOut = NoSort
    /\ sortOut' = topologicalSort(sortIn)
    /\ UNCHANGED <<capabilities, tools, plans, entities, events, req, sortIn, polIn, polOut,
                   adminVars, promptLog>>

NextSort == RunSort

SpecSort == InitSort /\ [][NextSort]_vars

(***************************************************************************)
(* Dependencies that are JSON numbers but no integers.  The deps array is  *)
(* z.array(z.number()), so 0.5 is a well-formed entry.  In this section a  *)
(* number is modelled by twice its value: 1 stands for 0.5, 2 for 1.       *)
(***************************************************************************)
NumberDeps(len) == {<<>>} \cup {<<h>> : h \in 0..(2 * len)}

NumberPlans ==
    UNION {[1..len -> {[deps |-> d] : d \in NumberDeps(len)}] : len \in 0..MaxSortSteps}

\* validatePlan's dependency check of every step; the step index and the
\* plan length are doubled like the dependencies they are compared with
dependenciesPass(doubled) ==
    \A i \in 1..Len(doubled) :
        validateDependencies(doubled[i], 2 * (i - 1), 2 * Len(doubled)) = <<>>

\* what topologicalSort sees of a number it uses as array index: an integer
\* is itself; a fraction at or above the length fails the range test like
\* the length; a fraction below it passes the test and steps[index] is
\* undefined, like steps[-1]
arrayIndex(h, n) ==
    IF h % 2 = 0 THEN h \div 2
    ELSE IF h >= 2 * n THEN n
    ELSE 0 - 1

indexedPlan(doubled) ==
    [i \in 1..Len(doubled) |->
        [deps |-> [k \in 1..Len(doubled[i].deps) |->
                      arrayIndex(doubled[i].deps[k], Len(doubled))]]]

InitNumber ==
    /\ ServerStarted
    /\ plans = NoPlans
    /\ sortIn \in NumberPlans
    /\ sortOut = NoSort
    /\ polIn = NoPolicyIn
    /\ polOut = NoPolicyOut

RunNumberSort ==
    /\ sortOut = NoSort
    /\ sortOut' = topologicalSort(indexedPlan(sortIn))
    /\ UNCHANGED <<capabilities, tools, plans, entities, events, req, sortIn, polIn, polOut,
                   adminVars, promptLog>>

NextNumber == RunNumberSort

SpecNumber == InitNumber /\ [][NextNumber]_vars

(***************************************************************************)
(* Stand-alone specification of the registry methods of PolicyEngine:      *)
(* each call writes the in-memory map and then the capabilities table,     *)
(* and the statement on the table succeeds or throws                       *)
(***************************************************************************)
\* capabilities handed to addCapability and updateCapability
EngineCapabilities ==
    [kind : {"ToolCap", "DataCap"}, scope : {"s1"}, description : {"d2"},
     is_system : {FALSE}]

\* this.capabilities.delete(capability.id) in the catch block of addCapability
rollback(caps, id) == mapDelete(caps, id)

\* PolicyEngine.addCapability(capability, true)
addCapability(id, capability, persisted) ==
    /\ IF persisted
       THEN /\ capabilities' = mapSet(capabilities, id, capability)
            /\ capRows' = mapSet(capRows, id, capability)
            /\ reply' = Reply("addCapability", id, "ok")
       ELSE /\ capabilities' = rollback(mapSet(capabilities, id, capability), id)
            /\ capRows' = capRows
            /\ reply' = Reply("addCapability", id, "throws")
    /\ UNCHANGED <<tools, plans, entities, events, req, pureVars, servers, providerVars, upd, promptLog>>

\* PolicyEngine.removeCapability(id): a throw of the DELETE is swallowed
removeCapability(id, deleted) ==
    /\ capabilities' = mapDelete(capabilities, id)
    /\ capRows' = IF deleted THEN mapDelete(capRows, id) ELSE capRows
    /\ reply' = Reply("removeCapability", id,
                      IF exists(capabilities, id) THEN "true" ELSE "false")
    /\ UNCHANGED <<tools, plans, entities, events, req, pureVars, servers, providerVars, upd, promptLog>>

\* PolicyEngine.updateCapability(capability)
updateCapability(id, capability, updated) ==
    /\ capabilities' = mapSet(capabilities, id, capability)
    /\ capRows' = IF updated THEN updateRow(capRows, id, capability) ELSE capRows
    /\ reply' = Reply("updateCapability", id, IF updated THEN "ok" ELSE "throws")
    /\ UNCHANGED <<tools, plans, entities, events, req, pureVars, servers, providerVars, upd, promptLog>>

InitEngine ==
    /\ ServerStarted
    /\ NoPureRun
    /\ plans = NoPlans

NextEngine ==
    \/ \E id \in CapIds, capability \in EngineCapabilities, persisted \in BOOLEAN :
          addCapability(id, capability, persisted)
    \/ \E id \in CapIds, deleted \in BOOLEAN : removeCapability(id, deleted)
    \/ \E id \in CapIds, capability \in EngineCapabilities, updated \in BOOLEAN :
          updateCapability(id, capability, updated)

SpecEngine == InitEngine /\ [][NextEngine]_vars

(***************************************************************************)
(* Stand-alone specification of the policy engine: validatePlan on a plan  *)
(* and validateStep on each of its steps, with the same entities           *)
(***************************************************************************)
\* steps that declare a capability the registry does not hold, or holds with
\* the other kind, and steps that name a stored entity
PolicySteps ==
    { Step("create_document", <<>>, {"WRITE_FILE", "UNREGISTERED"}, {}),
      Step("delete_everything", <<>>, {"WRITE_FILE"}, {}),
      Step("send_message", <<SeedEntity>>, {"SEND_EMAIL"}, {"WRITE_FILE"}),
      Step("analyze_content", <<SeedEntity, TextTok>>, {}, {"pii_allowed"}),
      Step("analyze_content", <<LooseTok, SeedEntity>>, {}, {"share_with:team"}) }

PolicyPlans == PlanSet \cup {<<k>> : k \in PolicySteps}

\* entity sets handed to the check: a stored entity may carry tags that are
\* no registered DataCap
TaggedEntities == [id \in {SeedEntity} |-> {"pii_allowed", "WRITE_FILE", "internal"}]

PolicyEntities == {NoEntities, SeedEntities, TaggedEntities}

\* the argument strings that are ids of entities of the checked set
resolvedArgs(args, entityMap) == SelectSeq(args, LAMBDA tok : tok \in DOMAIN entityMap)

\* the plan with every argument string that names no checked entity removed
withoutUnresolved(steps, entityMap) ==
    [i \in 1..Len(steps) |->
        [steps[i] EXCEPT !.args = resolvedArgs(steps[i].args, entityMap)]]

InitPolicy ==
    /\ ServerStarted
    /\ plans = NoPlans
    /\ sortIn = <<>>
    /\ sortOut = NoSort
    /\ polIn \in [steps : PolicyPlans, entityMap : PolicyEntities,
                  toolRegistry : {EmptyRegistry, getToolRegistry(DefaultTools)}]
    /\ polOut = NoPolicyOut

RunPolicy ==
    /\ ~polOut.ran
    /\ polOut' =
          [ran |-> TRUE,
           plan |-> validatePlan(capabilities, polIn.steps, polIn.entityMap,
                                 polIn.toolRegistry),
           steps |-> [i \in 1..Len(polIn.steps) |->
                         validateStep(capabilities, polIn.steps[i], polIn.entityMap)],
           resolved |-> validatePlan(capabilities,
                                     withoutUnresolved(polIn.steps, polIn.entityMap),
                                     polIn.entityMap, polIn.toolRegistry)]
    /\ UNCHANGED <<capabilities, tools, plans, entities, events, req, sortIn, sortOut,
                   polIn, adminVars, promptLog>>

NextPolicy == RunPolicy

SpecPolicy == InitPolicy /\ [][NextPolicy]_vars

(***************************************************************************)
(* Properties                                                              *)
(***************************************************************************)
\* request r hands a step to the executor in this transition
Invokes(r) == Len(req'[r].invoked) > Len(req[r].invoked)

\* the step request r is working on
CurrentIndex(r) == req[r].sortedSteps[req[r].pos]
CurrentStep(r) == StepAt(req[r].steps, CurrentIndex(r))

EventsOf(r) == {i \in 1..Len(events) : events[i].exec = r}
SuccessEventsOf(r) == {i \in EventsOf(r) : events[i].error = "none"}
FailureEventsOf(r) == {i \in EventsOf(r) : events[i].error # "none"}

\* position of a step index in an order (0 when absent)
PositionIn(order, index) ==
    IF \E j \in 1..Len(order) : order[j] = index
    THEN CHOOSE j \in 1..Len(order) : order[j] = index
    ELSE 0

PolicyStopped(r) == req[r].error = "policy"

\* C1: the executor is invoked for a step only when the policy check run just
\* before it in the same execution returned no violation; after a check that
\* returned a violation the executor is invoked neither for that step nor for
\* any later step of the run.
C1_ExecutorOnlyAfterCleanCheck ==
    /\ [][\A r \in Requests :
            Invokes(r) =>
                /\ req[r].pc = "loop"
                /\ validateStep(capabilities, CurrentStep(r), NoEntities) = <<>>
                /\ req'[r].invoked = Append(req[r].invoked, CurrentIndex(r))]_vars
    /\ [](\A r \in Requests :
            PolicyStopped(r) =>
                /\ req[r].pc \in {"stepFailed", "finalize", "done"}
                /\ req[r].invoked = SubSeq(req[r].sortedSteps, 1, req[r].pos - 1))

\* a run executed a step and was then stopped by a violation on a later one
C1_Witness ==
    \E r \in Requests :
        /\ PolicyStopped(r)
        /\ req[r].pc = "done"
        /\ Len(req[r].invoked) = 1
        /\ Len(req[r].sortedSteps) = 2

\* the tool capabilities the requirement map requires for an operation
RequiredToolCaps(op) == IF op \in DOMAIN tools THEN getToolRegistry(tools)[op] ELSE {}

\* C2: every step passed to the executor declares every tool capability that
\* the operation requirement map requires for its operation at that time.
C2_RequiredToolCapsDeclared ==
    [][\A r \in Requests :
          Invokes(r) => RequiredToolCaps(CurrentStep(r).op) \subseteq CurrentStep(r).tool_caps]_vars

DataCapTags(id) == {c \in entities[id] : hasKind(capabilities, c, "DataCap")}

\* C3: for every step passed to the executor, every stored entity whose id
\* appears in the step's args has all its DataCap tags in step.data_caps.
C3_LiveDataCapsDeclared ==
    [][\A r \in Requests :
          Invokes(r) =>
              \A id \in SeqToSet(extractEntityReferences(CurrentStep(r).args)) :
                  id \in DOMAIN entities => DataCapTags(id) \subseteq CurrentStep(r).data_caps]_vars

SuccessEvents == {i \in 1..Len(events) : events[i].error = "none"}
ConsumedStored(ev) == SeqToSet(ev.consumes) \cap DOMAIN entities

\* C4: every entity persisted as the product of a step carries a tag set
\* that contains the tags of every entity the step consumed.
C4_CapabilityMonotonicity ==
    \A i \in SuccessEvents :
        \A p \in SeqToSet(events[i].produces) :
            \A c \in ConsumedStored(events[i]) : entities[c] \subseteq entities[p]

\* C5: every entity persisted as the product of a step carries no tag outside
\* the union of the tags of the entities the step consumed.
C5_NoCapabilityMinting ==
    \A i \in SuccessEvents :
        \A p \in SeqToSet(events[i].produces) :
            entities[p] \subseteq UNION {entities[c] : c \in ConsumedStored(events[i])}

\* C6: whenever topologicalSort returns an order, every step index occurs in
\* it exactly once and every dependency of a step occurs before the step.
C6_TopologicalValidity ==
    sortOut.error = "none" =>
        LET order == sortOut.result
            n == Len(sortIn)
        IN /\ Len(order) = n
           /\ \A i \in 0..(n - 1) : Cardinality({j \in 1..n : order[j] = i}) = 1
           /\ \A i \in 0..(n - 1) :
                 \A k \in 1..Len(sortIn[i + 1].deps) :
                     LET d == sortIn[i + 1].deps[k]
                     IN /\ PositionIn(order, d) > 0
                        /\ PositionIn(order, d) < PositionIn(order, i)

\* an order was returned for three steps that is not the index order
C6_Witness ==
    /\ sortOut.error = "none"
    /\ Len(sortIn) = 3
    /\ sortOut.result # <<0, 1, 2>>
    /\ \E i \in 1..3 : Len(sortIn[i].deps) = 2 /\ sortIn[i].deps[1] # sortIn[i].deps[2]

\* indices reachable from index i along deps in one or more hops
RECURSIVE ReachFrom(_, _, _)
ReachFrom(steps, frontier, n) ==
    LET valid == {x \in frontier : x \in 0..(Len(steps) - 1)}
        next == UNION {SeqToSet(StepAt(steps, x).deps) : x \in valid}
    IN IF n = 0 THEN {} ELSE next \cup ReachFrom(steps, next, n - 1)

HasCycle(steps) ==
    \E i \in 0..(Len(steps) - 1) : i \in ReachFrom(steps, {i}, Len(steps))

AllDepsInRange(steps) ==
    \A i \in 1..Len(steps) : SeqToSet(steps[i].deps) \subseteq 0..(Len(steps) - 1)

\* request r is past the ordering of the steps of the plan it executes
Ordered(r) == req[r].entered /\ req[r].pc # "sort"

\* request r returns its response in this transition
Finishes(r) == req[r].pc = "finalize" /\ req'[r].pc = "done"

CycleRejected(r) ==
    /\ req[r].invoked = <<>>
    /\ SuccessEventsOf(r) = {}
    /\ req[r].pc \in {"finalize", "done"}
    /\ req[r].pc = "done" => req[r].response = "failed"

\* C7 as stated: a plan whose deps contain a cycle fails with a
\* circular-dependency error before any step runs, with no executor call, no
\* success event and final status failed.
C7_CycleRejectedAsCircular ==
    /\ [](\A r \in Requests :
            (Ordered(r) /\ HasCycle(req[r].steps)) =>
                (req[r].error = "circular" /\ CycleRejected(r)))
    /\ [][\A r \in Requests :
            (Finishes(r) /\ HasCycle(req[r].steps)) =>
                plans'[req[r].plan_id].status = "failed"]_vars

\* C7 amended: such a plan fails before any step runs with an ordering error,
\* which is the circular-dependency error whenever all its dependency
\* indices are indices of steps.
C7_CycleRejected ==
    /\ [](\A r \in Requests :
            (Ordered(r) /\ HasCycle(req[r].steps)) =>
                /\ req[r].error \in {"circular", "invalid_dependency", "type_error"}
                /\ AllDepsInRange(req[r].steps) => req[r].error = "circular"
                /\ CycleRejected(r))
    /\ [][\A r \in Requests :
            (Finishes(r) /\ HasCycle(req[r].steps)) =>
                plans'[req[r].plan_id].status = "failed"]_vars

\* a two-hop cycle was rejected and the request has returned
C7_Witness ==
    \E r \in Requests :
        /\ req[r].pc = "done"
        /\ req[r].entered
        /\ Len(req[r].steps) = 2
        /\ req[r].steps[1].deps = <<1>>
        /\ req[r].steps[2].deps = <<0>>
        /\ req[r].error = "circular"
        /\ plans[req[r].plan_id].status = "failed"

StepFailed(r) == req[r].error \in {"policy", "unknown_op", "executor"}

\* C8: when a step fails, exactly one failure event is recorded for it, no
\* event is recorded for a step later in the order, and the final status of
\* the plan is failed.
C8_FailFast ==
    /\ [](\A r \in Requests :
            (StepFailed(r) /\ req[r].pc \in {"finalize", "done"}) =>
                /\ req[r].pos \in 1..Len(req[r].sortedSteps)
                /\ Cardinality({i \in FailureEventsOf(r) :
                                    events[i].step_index = CurrentIndex(r)}) = 1
                /\ Cardinality(FailureEventsOf(r)) = 1
                /\ \A i \in EventsOf(r) :
                      PositionIn(req[r].sortedSteps, events[i].step_index) <= req[r].pos
                /\ req[r].pc = "done" => req[r].response = "failed")
    /\ [][\A r \in Requests :
            (Finishes(r) /\ StepFailed(r)) =>
                plans'[req[r].plan_id].status = "failed"]_vars

\* the first of two steps failed and the request has returned
C8_Witness ==
    \E r \in Requests :
        /\ req[r].pc = "done"
        /\ StepFailed(r)
        /\ Len(req[r].sortedSteps) = 2
        /\ req[r].pos = 1
        /\ req[r].steps[2].deps = <<>>
        /\ Cardinality(EventsOf(r)) = 1

\* request r is issued in this transition
Issued(r) == req[r].pc = "idle" /\ req'[r].pc # "idle"

\* C9: an execute request issued while the plan is executing returns
\* already_executing, one issued after it completed returns
\* already_completed; neither appends an event, calls the executor or
\* changes the status of the plan.
C9_IdempotentExecute ==
    /\ [][\A r \in Requests :
            (Issued(r) /\ req'[r].plan_id \in DOMAIN plans) =>
                LET status == plans[req'[r].plan_id].status
                IN /\ status = "executing" => req'[r].response = "already_executing"
                   /\ status = "completed" => req'[r].response = "already_completed"
                   /\ status \in {"executing", "completed"} =>
                         /\ req'[r].pc = "done"
                         /\ plans' = plans
                         /\ events' = events
                         /\ req'[r].invoked = <<>>]_vars
    /\ [](\A r \in Requests :
            req[r].response \in {"already_executing", "already_completed"} =>
                /\ req[r].pc = "done"
                /\ req[r].invoked = <<>>
                /\ EventsOf(r) = {})

\* one request was turned away while another was executing the plan
C9_Witness ==
    \E r, q \in Requests :
        /\ req[r].response = "already_executing"
        /\ req[q].pc = "awaitExec"
        /\ req[q].plan_id = req[r].plan_id

\* C10: the only status changes of a plan are pending->executing,
\* executing->completed and executing->failed.
C10_MonotonicStatus ==
    [][\A id \in DOMAIN plans :
          (id \in DOMAIN plans' /\ plans'[id].status # plans[id].status) =>
              <<plans[id].status, plans'[id].status>> \in
                  {<<"pending", "executing">>, <<"executing", "completed">>,
                   <<"executing", "failed">>}]_vars

\* request r passed the entry guard and has not returned yet
Running(r) == req[r].entered /\ req[r].pc # "done"

\* C11: no two execute requests are running the steps of the same plan at
\* the same time.
C11_SingleExecution ==
    \A r, q \in Requests :
        (r # q /\ Running(r) /\ Running(q)) => req[r].plan_id # req[q].plan_id

\* a plan is being executed for the second time, after its first execution
\* failed and returned
C11_Witness ==
    \E r, q \in Requests :
        /\ r # q
        /\ req[r].plan_id = req[q].plan_id
        /\ req[r].entered /\ req[r].pc = "done" /\ req[r].response = "failed"
        /\ req[q].entered /\ req[q].pc = "awaitExec"

\* request r returns its response in this transition
Returns(r) == req[r].pc # "done" /\ req'[r].pc = "done"

\* C12: an execute request for an existing plan returns completed, failed,
\* already_executing or already_completed, and a request that passed the
\* entry guard leaves the stored status of the plan at completed or failed,
\* equal to the status it returns, also when a persistence call fails.
C12_DurableFinalStatus ==
    [][\A r \in Requests :
          (Returns(r) /\ req'[r].plan_id \in DOMAIN plans) =>
              /\ req'[r].response \in
                    {"completed", "failed", "already_executing", "already_completed"}
              /\ req'[r].entered =>
                    /\ req'[r].response \in {"completed", "failed"}
                    /\ plans'[req'[r].plan_id].status = req'[r].response]_vars

\* the registry, in memory and persisted, is the same after the transition
RegistryUnchanged == capabilities' = capabilities /\ capRows' = capRows

SystemIds == {id \in DOMAIN capabilities : capabilities[id].is_system}

\* C13: a delete or update request that targets a capability whose is_system
\* flag is true is answered Forbidden and leaves the registry unchanged, in
\* memory and persisted; no capability or tool-provider operation changes or
\* removes such a capability.
C13_SystemCapabilityImmutable ==
    [][/\ \A id \in CapIds \cap SystemIds :
             /\ handleDeleteCapability(id) =>
                   (reply' = Reply("delete", id, "forbidden") /\ RegistryUnchanged)
             /\ \A u \in Updates :
                   handleUpdateCapability(u, id) =>
                       /\ reply' = Reply("update", id, "forbidden")
                       /\ RegistryUnchanged
                       /\ upd' = upd
       /\ \A id \in SystemIds :
             /\ id \in DOMAIN capabilities' /\ capabilities'[id] = capabilities[id]
             /\ id \in DOMAIN capRows' /\ capRows'[id] = capRows[id]]_vars

\* a delete of a system capability was refused after a custom capability was
\* added and a tool provider was connected
C13_Witness ==
    /\ reply = Reply("delete", "WRITE_FILE", "forbidden")
    /\ "audit_log" \in DOMAIN capabilities
    /\ servers # {}

\* a request body that carries a kind and a scope the handler accepts
WellFormed(body) == body.kind \in {"ToolCap", "DataCap"} /\ body.scope # "absent"

C19_UpdateFrame ==
    [][/\ \A u \in Updates, body \in Bodies :
             handleUpdateCapabilityBody(u, body) =>
                 /\ DOMAIN capabilities' = DOMAIN capabilities
                 /\ DOMAIN capRows' = DOMAIN capRows
                 /\ \A x \in DOMAIN capabilities \ {upd[u].id} :
                       capabilities'[x] = capabilities[x]
                 /\ upd[u].id \in DOMAIN capabilities =>
                       capabilities'[upd[u].id].is_system
                           = capabilities[upd[u].id].is_system
       /\ \A u \in Updates, id \in CapIds :
             (handleUpdateCapability(u, id) /\ id \notin DOMAIN capabilities) =>
                 (reply' = Reply("update", id, "not_found") /\ RegistryUnchanged)]_vars

\* the violations validateStep reported for the step at position i, each
\* carrying the index of that step
StepViolations(i) == {[v EXCEPT !.step_index = i - 1] : v \in SeqToSet(polOut.steps[i])}

\* C14: the violations validatePlan reports for a plan are those validateStep
\* reports for its steps taken one by one with the same entities, order
\* aside.
C14_PolicySymmetry ==
    polOut.ran =>
        SeqToSet(polOut.plan) = UNION {StepViolations(i) : i \in 1..Len(polIn.steps)}

\* step i of the checked plan declares a dependency that is negative, not
\* below the plan length, or not below i
HasBadDep(i) ==
    \E k \in 1..Len(polIn.steps[i].deps) :
        LET d == polIn.steps[i].deps[k]
        IN d < 0 \/ d >= Len(polIn.steps) \/ d >= i - 1

ReportsInvalidDependency(i) ==
    \E j \in 1..Len(polOut.plan) :
        /\ polOut.plan[j].step_index = i - 1
        /\ polOut.plan[j].violation_type = "invalid_dependency"

\* C20: validatePlan reports an invalid_dependency violation for step i
\* exactly when step i declares a dependency d with d < 0, d >= plan length
\* or d >= i.
C20_InvalidDependencyIff ==
    polOut.ran =>
        \A i \in 1..Len(polIn.steps) : ReportsInvalidDependency(i) <=> HasBadDep(i)

\* a two-step plan whose second step depends on itself was checked, and its
\* first step, which depends on nothing, got no violation
C20_Witness ==
    /\ polOut.ran
    /\ Len(polIn.steps) = 2
    /\ polIn.steps[1].deps = <<>>
    /\ polIn.steps[2].deps = <<1>>
    /\ ReportsInvalidDependency(2)
    /\ ~ReportsInvalidDependency(1)

\* the response handlePrompt has just sent
LastResponse == promptLog'[Len(promptLog')]

\* no execution request has got past the entry guard with this plan id
NeverExecuted(id) == \A r \in Requests : req[r].plan_id = id => ~req[r].entered

\* C15: handlePrompt stores the candidate plan exactly when validatePlan
\* returned no violation: a clean plan is stored with status pending and
\* answered approved with its id, a plan with a violation is answered
\* policy_violation with the violation list, is not stored and is never
\* executed.
C15_PersistIffClean ==
    /\ [][\A planId \in PlanIds, outcome \in PlannerOutcomes :
            (outcome.ok /\ handlePrompt(TRUE, planId, outcome)) =>
                LET violations == validatePlan(capabilities, outcome.steps, NoEntities,
                                               getToolRegistry(tools))
                IN /\ planId \in DOMAIN plans' <=> violations = <<>>
                   /\ violations = <<>> =>
                         /\ plans'[planId] = [steps |-> outcome.steps, status |-> "pending"]
                         /\ LastResponse.status = "approved"
                         /\ LastResponse.plan_id = planId
                   /\ violations # <<>> =>
                         /\ LastResponse.status = "policy_violation"
                         /\ LastResponse.plan_id = planId
                         /\ LastResponse.violations = violations
                         /\ plans' = plans]_vars
    /\ [](\A i \in 1..Len(promptLog) :
            promptLog[i].status = "policy_violation" =>
                /\ promptLog[i].plan_id \notin DOMAIN plans
                /\ NeverExecuted(promptLog[i].plan_id))

\* one prompt was refused for a violation and the execution of its plan id
\* found no plan, another was approved and its plan ran to completion
C15_Witness ==
    \E i, j \in 1..Len(promptLog) :
        /\ promptLog[i].status = "policy_violation"
        /\ \E r \in Requests :
              req[r].plan_id = promptLog[i].plan_id /\ req[r].response = "not_found"
        /\ promptLog[j].status = "approved"
        /\ promptLog[j].plan_id \in DOMAIN plans
        /\ plans[promptLog[j].plan_id].status = "completed"

OnlyInvalidDependency(violations) ==
    \A k \in 1..Len(violations) : violations[k].violation_type = "invalid_dependency"

\* C16: requires_approval of a policy_violation response is true exactly
\* when some violation is a missing_tool_cap or a missing_data_cap; a plan
\* whose violations are all invalid_dependency is not stored and its flag is
\* false.
C16_ApprovalFlag ==
    \A i \in 1..Len(promptLog) :
        promptLog[i].status = "policy_violation" =>
            /\ promptLog[i].requires_approval <=>
                  \E k \in 1..Len(promptLog[i].violations) :
                      promptLog[i].violations[k].violation_type
                          \in {"missing_tool_cap", "missing_data_cap"}
            /\ OnlyInvalidDependency(promptLog[i].violations) =>
                  /\ ~promptLog[i].requires_approval
                  /\ promptLog[i].plan_id \notin DOMAIN plans

\* one refused plan had only dependency violations, another had a
\* dependency violation together with a capability violation
C16_Witness ==
    \E i, j \in 1..Len(promptLog) :
        /\ promptLog[i].status = "policy_violation"
        /\ OnlyInvalidDependency(promptLog[i].violations)
        /\ ~promptLog[i].requires_approval
        /\ promptLog[j].status = "policy_violation"
        /\ promptLog[j].requires_approval
        /\ \E k \in 1..Len(promptLog[j].violations) :
              promptLog[j].violations[k].violation_type = "invalid_dependency"

\* the step indexes of the events of request r, in the order of the events
\* table
RECURSIVE StepIndexesOf(_, _)
StepIndexesOf(r, i) ==
    IF i > Len(events) THEN <<>>
    ELSE IF events[i].exec = r
    THEN <<events[i].step_index>> \o StepIndexesOf(r, i + 1)
    ELSE StepIndexesOf(r, i + 1)

\* C17: the event log is append-only: every step leaves the events as they
\* are or adds events after them, and the events of one plan execution are
\* in the order in which that execution attempted the steps.
C17_EventLogAppendOnly ==
    /\ [][/\ Len(events') >= Len(events)
          /\ SubSeq(events', 1, Len(events)) = events]_vars
    /\ [](\A r \in Requests :
            StepIndexesOf(r, 1)
                = SubSeq(req[r].sortedSteps, 1, Cardinality(EventsOf(r))))

\* two executions have written events, one of them an event for each of the
\* two steps of its plan
C17_Witness ==
    \E r1, r2 \in Requests :
        /\ r1 # r2
        /\ Cardinality(EventsOf(r1)) = 2
        /\ Cardinality(EventsOf(r2)) >= 1
        /\ req[r1].sortedSteps = <<0, 1>>

\* validatePlan reported a violation of this type for step i of the checked
\* plan
Reports(i, type) ==
    \E j \in 1..Len(polOut.plan) :
        polOut.plan[j].step_index = i - 1 /\ polOut.plan[j].violation_type = type

\* the capabilities the requirement map asks for an operation
RequiredFor(op) ==
    IF op \in DOMAIN polIn.toolRegistry THEN polIn.toolRegistry[op] ELSE {}

Registered(c, kind) == c \in DOMAIN capabilities /\ capabilities[c].kind = kind

EntityDataCaps(id) == {c \in polIn.entityMap[id] : Registered(c, "DataCap")}

\* C22: validatePlan reports missing_data_cap for a step exactly when an
\* entity of the checked set whose id is in step.args has a registered
\* DataCap tag the step does not declare, or a declared data capability is
\* not registered as a DataCap.
C22_MissingDataCapIff ==
    polOut.ran =>
        \A i \in 1..Len(polIn.steps) :
            LET step == polIn.steps[i]
            IN Reports(i, "missing_data_cap") <=>
                  \/ \E id \in SeqToSet(step.args) \cap DOMAIN polIn.entityMap :
                        EntityDataCaps(id) \ step.data_caps # {}
                  \/ \E c \in step.data_caps : ~Registered(c, "DataCap")

\* a step that names an entity tagged with a DataCap, a ToolCap and an
\* unregistered tag, and declares no data capability, was reported
C22_Witness ==
    /\ polOut.ran
    /\ polIn.entityMap = TaggedEntities
    /\ Len(polIn.steps) = 1
    /\ polIn.steps[1].args = <<SeedEntity>>
    /\ polIn.steps[1].data_caps = {}
    /\ Reports(1, "missing_data_cap")
    /\ \A j \in 1..Len(polOut.plan) :
          polOut.plan[j].violation_type = "missing_data_cap" =>
              polOut.plan[j].required = {"pii_allowed"}

\* C29: an id in a step's args that names no entity of the checked set yields
\* no violation: the check reports what it reports for the same plan without
\* that id in the args.
C29_FailOpen ==
    polOut.ran => polOut.plan = polOut.resolved

\* a step that names a stored entity was checked against an empty entity set
\* and got no data capability violation
C29_Witness ==
    /\ polOut.ran
    /\ polIn.entityMap = NoEntities
    /\ Len(polIn.steps) = 1
    /\ polIn.steps[1].args = <<SeedEntity>>
    /\ polIn.steps[1].data_caps = {}
    /\ ~Reports(1, "missing_data_cap")

\* C23: the context handed to the executor for a step holds results of steps
\* listed in that step's deps only, each as it was recorded; the result of a
\* step that is not in its deps is not in the context, even when that step
\* ran earlier in the same execution.
C23_ContextIsolation ==
    \A r \in Requests :
        req[r].pc = "awaitExec" =>
            /\ DOMAIN req[r].context \subseteq SeqToSet(CurrentStep(r).deps)
            /\ \A d \in DOMAIN req[r].context :
                  d \in DOMAIN req[r].stepResults
                      /\ req[r].context[d] = req[r].stepResults[d]

\* the executor is working on the second step of a plan, which lists no
\* dependency, after the first step produced a result: the context is empty
C23_Witness ==
    \E r \in Requests :
        /\ req[r].pc = "awaitExec"
        /\ CurrentStep(r).deps = <<>>
        /\ DOMAIN req[r].stepResults # {}
        /\ \E d \in DOMAIN req[r].stepResults : req[r].stepResults[d] # <<>>
        /\ DOMAIN req[r].context = {}

\* every capability the step declares is in the registry with its kind
DeclaredRegistered(step) ==
    /\ \A c \in step.tool_caps : c \in DOMAIN capabilities /\ capabilities[c].kind = "ToolCap"
    /\ \A c \in step.data_caps : c \in DOMAIN capabilities /\ capabilities[c].kind = "DataCap"

\* C24: a change of the registry is seen by the check made when a step is
\* reached: a delete or update that answers ok has changed the registry the
\* check reads, a step that declares a capability which is then missing or
\* of the other kind is not handed to the executor, and the execution that
\* stopped at it has a failure event for it and leaves the plan failed.
C24_RegistryChangeVisible ==
    [][/\ \A id \in LiveIds :
             (handleDeleteCapability(id) /\ reply'.status = "ok") =>
                 id \notin DOMAIN capabilities'
       /\ \A u \in Updates, body \in LiveBodies :
             (handleUpdateCapabilityBody(u, body) /\ reply'.status = "ok"
                 /\ body.kind # "absent") =>
                 capabilities'[upd[u].id].kind = body.kind
       /\ \A r \in Requests :
             /\ Invokes(r) => DeclaredRegistered(CurrentStep(r))
             /\ (req[r].pc = "loop" /\ req[r].pos <= Len(req[r].sortedSteps)
                    /\ ~DeclaredRegistered(CurrentStep(r)) /\ req'[r] # req[r]) =>
                   req'[r].pc = "stepFailed" /\ req'[r].error = "policy"
             /\ (handleExecutePlanFinish(r) /\ req[r].error = "policy") =>
                   /\ plans'[req[r].plan_id].status = "failed"
                   /\ \E i \in FailureEventsOf(r) :
                         events[i].step_index = CurrentIndex(r)]_vars

\* the plan was stored clean, its first step ran, the added capability was
\* deleted meanwhile, and the second step, which declares it, was refused:
\* the execution answered failed and the plan is failed
C24_Witness ==
    \E r \in Requests :
        /\ req[r].pc = "done"
        /\ req[r].response = "failed"
        /\ req[r].error = "policy"
        /\ req[r].invoked = <<0>>
        /\ Cardinality(SuccessEventsOf(r)) = 1
        /\ Cardinality(FailureEventsOf(r)) = 1
        /\ "audit_log" \notin DOMAIN capabilities
        /\ "audit_log" \in StepAt(req[r].steps, 1).tool_caps
        /\ plans[req[r].plan_id].status = "failed"

\* the step appends an event of request r
Records(r) ==
    /\ Len(events') > Len(events)
    /\ events'[Len(events')].exec = r

\* C25: in every execution the stored status of the plan is executing when
\* the executor is invoked and when an event of the execution is appended,
\* from the first invocation and the first event on.
C25_ExecutingBeforeSteps ==
    [][\A r \in Requests :
          (Invokes(r) \/ Records(r)) =>
              /\ req[r].plan_id \in DOMAIN plans
              /\ plans[req[r].plan_id].status = "executing"]_vars

\* the executor is working on the second step of an execution that has one
\* event, and the stored status is executing
C25_Witness ==
    \E r \in Requests :
        /\ req[r].pc = "awaitExec"
        /\ Len(req[r].invoked) = 2
        /\ Cardinality(EventsOf(r)) = 1
        /\ plans[req[r].plan_id].status = "executing"

\* the steps for which request r has recorded a success event
SucceededSteps(r) == {events[i].step_index : i \in SuccessEventsOf(r)}

AllStepsSucceeded(r) == SucceededSteps(r) = 0..(Len(req[r].steps) - 1)

\* C26: an execution leaves the plan completed exactly when it recorded a
\* success event for every step of the plan (none for an empty plan), and
\* leaves it failed otherwise; its response carries the same status.
C26_CompletedIffAllSucceeded ==
    /\ [][\A r \in Requests :
            Finishes(r) =>
                /\ plans'[req[r].plan_id].status =
                      IF AllStepsSucceeded(r) THEN "completed" ELSE "failed"
                /\ req'[r].response = plans'[req[r].plan_id].status]_vars
    /\ [](\A r \in Requests :
            (req[r].pc = "done" /\ req[r].entered) =>
                /\ req[r].response \in {"completed", "failed"}
                /\ req[r].response = "completed" <=> AllStepsSucceeded(r)
                /\ req[r].response = "completed" =>
                      Cardinality(SuccessEventsOf(r)) = Len(req[r].steps)
                          /\ FailureEventsOf(r) = {})

\* a first execution of a two-step plan failed at its second step, a second
\* execution of the same plan recorded a success for both steps and returned
\* completed
C26_Witness ==
    \E r, q \in Requests :
        /\ req[r].pc = "done" /\ req[r].response = "failed"
        /\ Cardinality(SuccessEventsOf(r)) = 1
        /\ req[q].pc = "done" /\ req[q].response = "completed"
        /\ Len(req[q].steps) = 2
        /\ Cardinality(SuccessEventsOf(q)) = 2
        /\ plans[req[q].plan_id].status = "completed"

\* the steps request r handed to the executor whose outcome is not yet an
\* event
InFlight(r) ==
    {k \in 1..Len(req[r].invoked) :
        ~\E i \in EventsOf(r) : events[i].step_index = req[r].invoked[k]}

\* C27: within one execution at most one executor invocation is in flight,
\* and the executor is invoked for a step only after every step before it in
\* the order has its outcome recorded as an event.
C27_SequentialSteps ==
    /\ [](\A r \in Requests : Cardinality(InFlight(r)) <= 1)
    /\ [][\A r \in Requests :
            Invokes(r) =>
                /\ InFlight(r) = {}
                /\ \A j \in 1..(req[r].pos - 1) :
                      \E i \in EventsOf(r) : events[i].step_index = req[r].sortedSteps[j]]_vars

\* the executor is working on the second step in the order while the first
\* has its success event and the second has none
C27_Witness ==
    \E r \in Requests :
        /\ req[r].pc = "awaitExec"
        /\ req[r].pos = 2
        /\ \E i \in SuccessEventsOf(r) : events[i].step_index = req[r].sortedSteps[1]
        /\ InFlight(r) = {2}

\* C28: a failed step is not tried again: within one execute request the
\* executor is invoked at most once for each step, and an executor error
\* becomes the error of the event of that step.
C28_NoRetry ==
    /\ [](\A r \in Requests :
            \A j, k \in 1..Len(req[r].invoked) :
                req[r].invoked[j] = req[r].invoked[k] => j = k)
    /\ [][\A r \in Requests :
            (req[r].pc = "stepFailed" /\ req[r].error = "executor" /\ req'[r] # req[r]) =>
                /\ events' = Append(events, events'[Len(events')])
                /\ events'[Len(events')].exec = r
                /\ events'[Len(events')].step_index = CurrentIndex(r)
                /\ events'[Len(events')].error = "executor"
                /\ req'[r].pc = "finalize"
                /\ req'[r].invoked = req[r].invoked]_vars

\* the executor failed on the second step of a plan after the first
\* succeeded: each step was handed over once and the request has returned
\* with the executor error in the event of the second step
C28_Witness ==
    \E r \in Requests :
        /\ req[r].pc = "done"
        /\ req[r].error = "executor"
        /\ Len(req[r].invoked) = 2
        /\ \E i \in FailureEventsOf(r) :
              /\ events[i].step_index = req[r].invoked[2]
              /\ events[i].error = "executor"
        /\ Cardinality(EventsOf(r)) = 2

\* some step of the plan declares a dependency index that is not below the
\* number of steps
HasDepBeyondEnd(steps) ==
    \E i \in 1..Len(steps) : \E k \in 1..Len(steps[i].deps) : steps[i].deps[k] >= Len(steps)

HasNegativeDep(steps) ==
    \E i \in 1..Len(steps) : \E k \in 1..Len(steps[i].deps) : steps[i].deps[k] < 0

\* request r got no further than the ordering of the steps
AbortedBeforeSteps(r) ==
    /\ req[r].invoked = <<>>
    /\ EventsOf(r) = {}
    /\ req[r].pc \in {"finalize", "done"}
    /\ req[r].pc = "done" => req[r].response = "failed"

C31_UnknownOpFailsStep ==
    /\ [](\A r \in Requests :
            (req[r].error = "unknown_op" /\ req[r].pc \in {"finalize", "done"}) =>
                /\ CurrentStep(r).op \notin DOMAIN tools
                /\ \E i \in FailureEventsOf(r) :
                      /\ events[i].step_index = CurrentIndex(r)
                      /\ events[i].error = "unknown_op"
                /\ Cardinality(FailureEventsOf(r)) = 1
                /\ \A i \in EventsOf(r) :
                      PositionIn(req[r].sortedSteps, events[i].step_index) <= req[r].pos
                /\ req[r].pc = "done" =>
                      /\ req[r].response = "failed"
                      /\ \A q \in Requests :
                            (req[q].pc = "idle" /\ ~Busy) =>
                                ENABLED handleExecutePlan(q, req[r].plan_id))
    /\ [][\A r \in Requests :
            (Finishes(r) /\ req[r].error = "unknown_op") =>
                plans'[req[r].plan_id].status = "failed"]_vars

\* the first of two independent steps had an op the executor does not know;
\* the request returned failed with one event, and a second request for the
\* plan was then accepted and has returned too
C31_Witness ==
    \E r, q \in Requests :
        /\ r # q
        /\ req[r].pc = "done"
        /\ req[r].error = "unknown_op"
        /\ Len(req[r].sortedSteps) = 2
        /\ req[r].pos = 1
        /\ Cardinality(EventsOf(r)) = 1
        /\ req[q].pc = "done"
        /\ req[q].entered
        /\ EventsOf(q) # {}

\* C32: a plan that passes validatePlan without a violation is executed in
\* index order: topologicalSort returns 0, 1, ..., n-1 for it.
C32_CleanPlanIndexOrder ==
    (sortOut # NoSort /\ dependenciesPass(sortIn)) =>
        /\ sortOut.error = "none"
        /\ sortOut.result = [j \in 1..Len(sortIn) |-> j - 1]

\* C33: over all execute requests for a plan there is at most one success
\* event for each plan id and step index: a step that succeeded is not
\* executed again.
C33_OneSuccessPerStep ==
    \A i, j \in 1..Len(events) :
        (/\ events[i].error = "none"
         /\ events[j].error = "none"
         /\ events[i].plan_id = events[j].plan_id
         /\ events[i].step_index = events[j].step_index) => i = j

\* the entities stored by plan executions: every entity but the one the
\* store held at the start
ProducedEntities == DOMAIN entities \ DOMAIN SeedEntities

\* C34: every entity a plan execution has stored is in the produces list of
\* exactly one success event, also when a later persistence call of the step
\* fails.
C34_LineageComplete ==
    \A id \in ProducedEntities :
        Cardinality({i \in SuccessEvents : \E k \in 1..Len(events[i].produces) :
                                               events[i].produces[k] = id}) = 1

\* C35: an execute request that returns without passing the entry guard
\* (plan not found, plan unreadable, already executing, already completed)
\* leaves the status of every plan as it was.
C35_RejectedRequestFrame ==
    [][\A r \in Requests :
          (Issued(r) /\ ~req'[r].entered) => plans' = plans]_vars


\* C36: a call of addCapability that fails because the INSERT throws leaves
\* the in-memory registry as it was before the call; a capability that was
\* registered under the same id is still there with its definition.
C36_FailedAddRestoresRegistry ==
    [][\A id \in CapIds, capability \in EngineCapabilities :
          addCapability(id, capability, FALSE) => capabilities' = capabilities]_vars

\* C37: the in-memory registry and the capabilities table hold the same
\* capabilities with the same definitions after every add, update or remove,
\* whether the statement on the table succeeded or threw.
C37_RegistryMatchesTable == capabilities = capRows

\* C38: once an add-tool-provider request has been answered with a failure
\* (connection error, failed verification, timeout), the provider is not
\* among the connected servers and none of its tools is loaded, whatever the
\* connection attempt does afterwards.
C38_FailedAddLeavesNoProvider ==
    add.pc = "failed" => (add.name \notin servers /\ add.name \notin mcpTools)

\* a step that sends the response of an add- or remove-tool-provider request
ProviderRequestCompletes ==
    \/ \E name \in ServerNames : handleRemoveMCPServer(name)
    \/ \E name \in ServerNames : handleAddMCPServerBegin(name) /\ name \in servers
    \/ \E healthy \in BOOLEAN : verifyMCPServerAddition(healthy)
    \/ addMCPServerWithTimeout
    \/ add.pc = "waiting" /\ (addServerConnectFails \/ loadToolsFromServerFails)

\* the registry holds MCP_TOOL:<name> exactly for the connected providers
MirrorsProviders(caps, names) ==
    \A name \in ServerNames : mcpCapabilityId(name) \in DOMAIN caps <=> name \in names

\* C39: when an add- or remove-tool-provider request completes, the registry
\* holds MCP_TOOL:<name> exactly for the connected providers, and the request
\* has added or removed no capability without the MCP_TOOL: prefix.
C39_RegistryMirrorsProviders ==
    [][ProviderRequestCompletes =>
          /\ MirrorsProviders(capabilities', servers')
          /\ \A id \in (DOMAIN capabilities \cup DOMAIN capabilities') :
                ~startsWithMCPTool(id) =>
                    /\ id \in DOMAIN capabilities /\ id \in DOMAIN capabilities'
                    /\ capabilities'[id] = capabilities[id]]_vars
=============================================================================
